---- MODULE Spec2Model ----
(***************************************************************************)
(* Model of hyperparam-tuning/src/experiment.py: Config, Experiment        *)
(* (initialize, create_param_space, create_json_configs, create_sh_script, *)
(* setup, get_peranto_data, get_singleton_prop, get_top_k, run).           *)
(*                                                                         *)
(* Reals are fixed-point integers in thousandths (50.0 is 50000, 0.5 is    *)
(* 500).  A proportion is an exact fraction <<numerator, denominator>>.    *)
(***************************************************************************)
EXTENDS Integers, Sequences, FiniteSets, TLC

VARIABLES base_files,     \* base json files on disk: file name -> document
          param_files,    \* parameters/{name}_params.txt: name -> lines
          json_files,     \* json_data/{name}/{name}_amr_s{S}_d{D}.json: <<name,S,D>> -> document
          sh_scripts,     \* sh_scripts/{name}.sh that exist
          dirs,           \* names whose data directories were created
          output_files,   \* peranto_output/{name}/peranto_{name}_s{S}_d{D}.txt: <<name,S,D>> -> lines
          modified_files, \* peranto_output/{name} modified/...: <<name,S,D>> -> observations
          mse_files,      \* mse_results/{name}_mse_results.txt: name -> report lines
          treebank,       \* the TripleStore's triples (reference corpus)
          exp,            \* the Experiment object held by the caller, or NoExp
          json_content,   \* the in-memory document of the last create_json_configs
          err,            \* outcome of the last operation
          run_result,     \* what the last run() computed
          lst,            \* argument of get_prop
          prop            \* result of get_prop

vars == <<base_files, param_files, json_files, sh_scripts, dirs, output_files,
          modified_files, mse_files, treebank, exp, json_content, err,
          run_result, lst, prop>>

(***************************************************************************)
(* Bounds                                                                  *)
(***************************************************************************)
MaxObs == 3        \* longest observation list given to get_prop
MaxK   == 4        \* largest k given to run()

(***************************************************************************)
(* Numbers                                                                 *)
(***************************************************************************)
Scale == 1000

\* int(x) of a float: truncation towards zero
int(x) == IF x >= 0 THEN x \div Scale ELSE -((-x) \div Scale)

\* x * 100 of a float
Times100(x) == x * 100

Min(a, b) == IF a <= b THEN a ELSE b

\* writing file k with content v into a directory f
Put(f, k, v) == [x \in DOMAIN f \cup {k} |-> IF x = k THEN v ELSE f[x]]

(***************************************************************************)
(* Distributions                                                           *)
(***************************************************************************)
distributions == <<"nn", "vb", "nn.arg0", "nn.arg1", "nn.arg0.$y0", "nn.arg1.$y0">>

InSeq(x, s) == \E i \in 1..Len(s) : s[i] = x

\* self.dist.replace("$", "")
name(d) ==
  CASE d = "nn.arg0.$y0" -> "nn.arg0.y0"
    [] d = "nn.arg1.$y0" -> "nn.arg1.y0"
    [] OTHER -> d

lvl1_dist_bad == <<"nn", "vb">>
lvl1_dist == <<"vb", "nn">>
lvl2_dist_bad == <<"nn.arg0">>
lvl2_dist == <<"nn.arg0", "nn.arg1">>
lvl3_dist == <<"nn.arg0.y0", "nn.arg1.y0">>

num_pron == <<698, 252>>

zdists ==
  [d \in {"nn", "nn.arg0", "nn.arg1", "nn.arg0.$y0", "nn.arg1.$y0"} |->
     CASE d = "nn" -> <<"nn">>
       [] d \in {"nn.arg0", "nn.arg1"} -> <<"nn.$y1">>
       [] OTHER -> <<"nn.$y1.$y2">>]

NoExp  == [dist |-> "none"]
NoDoc  == [distributions |-> <<>>, rules |-> <<>>]
NoErr  == [type |-> "ok"]
None   == "None"

(***************************************************************************)
(* Config.__init__                                                         *)
(***************************************************************************)
\* the child_dists argument: None, or a list the caller supplies
NotSupplied == <<>>
Supplied(list) == <<list>>

\* child_dists is only assigned when the caller supplied none
Config(distribution, input_space, base_file, child_dists) ==
  [distribution |-> distribution,
   input_space  |-> input_space,
   base_file    |-> base_file,
   argument     |-> child_dists,
   has_child_dists |-> (child_dists = NotSupplied),
   child_dists  |-> IF child_dists = NotSupplied THEN <<distribution>> ELSE <<>>]

\* input_space: a dict as the sequence of its (key, value) items
Keys(input_space) == [i \in 1..Len(input_space) |-> input_space[i][1]]
Lookup(input_space, key) ==
  LET i == CHOOSE j \in 1..Len(input_space) : input_space[j][1] = key
  IN  input_space[i][2].items

(***************************************************************************)
(* Experiment.initialize: checks, directories and the stage gate           *)
(***************************************************************************)
Exists(nm) == nm \in DOMAIN param_files

RECURSIVE FirstMissing(_, _)
\* the first dist of the list without a parameter file, or None
FirstMissing(ds, i) ==
  IF i > Len(ds) THEN None
  ELSE IF ~Exists(ds[i]) THEN ds[i]
  ELSE FirstMissing(ds, i + 1)

\* the exception raised by the gate for self.name = nm, or NoErr
Gate(nm) ==
  LET m3 == IF InSeq(nm, lvl3_dist) THEN FirstMissing(lvl1_dist \o lvl2_dist, 1) ELSE None
      m2 == IF InSeq(nm, lvl2_dist) THEN FirstMissing(lvl1_dist, 1) ELSE None
  IN  IF m3 # None THEN [type |-> "gate", tune |-> <<m3>>, before |-> nm]
      ELSE IF m2 # None THEN [type |-> "gate", tune |-> <<m2>>, before |-> nm]
      ELSE NoErr

\* the exception raised by the checks before the directories are made
Precheck(config) ==
  IF ~InSeq(config.distribution, distributions) THEN [type |-> "distribution"]
  ELSE IF Keys(config.input_space) # <<"Strength", "Discount">> THEN [type |-> "keys"]
  ELSE IF \E i \in 1..Len(config.input_space) : config.input_space[i][2].type # "list"
       THEN [type |-> "values"]
  ELSE IF config.base_file \notin DOMAIN base_files THEN [type |-> "base_file"]
  ELSE NoErr

\* exp = Experiment(config)
Construct(config) ==
  LET nm == name(config.distribution) IN
  /\ UNCHANGED <<base_files, param_files, json_files, sh_scripts, output_files,
                 modified_files, mse_files, treebank, json_content, run_result,
                 lst, prop>>
  /\ IF ~config.has_child_dists
     THEN /\ err' = [type |-> "AttributeError", distribution |-> config.distribution,
                     child_dists |-> config.argument[1]]
          /\ UNCHANGED <<exp, dirs>>
     ELSE IF Precheck(config) # NoErr
     THEN /\ err' = Precheck(config)
          /\ UNCHANGED <<exp, dirs>>
     ELSE /\ dirs' = dirs \cup {nm}
          /\ err' = Gate(nm)
          /\ exp' = IF Gate(nm) = NoErr
                    THEN [dist        |-> config.distribution,
                          name        |-> nm,
                          input_space |-> config.input_space,
                          child_dists |-> config.child_dists,
                          base_file   |-> config.base_file]
                    ELSE exp

(***************************************************************************)
(* Experiment.create_param_space                                           *)
(***************************************************************************)
RECURSIVE Flatten(_)
Flatten(ss) == IF ss = <<>> THEN <<>> ELSE Head(ss) \o Flatten(Tail(ss))

pairs_bad(input_space) ==
  LET S == Lookup(input_space, "Strength")
      D == Lookup(input_space, "Discount")
  IN  Flatten([j \in 1..Len(D) |-> [i \in 1..Len(S) |-> <<S[i], D[j]>>]])

\* [(strength, discount) for strength in S for discount in D]
pairs(input_space) ==
  LET S == Lookup(input_space, "Strength")
      D == Lookup(input_space, "Discount")
  IN  Flatten([i \in 1..Len(S) |-> [j \in 1..Len(D) |-> <<S[i], D[j]>>]])

\* one line "{pair[0]}, {pair[1]}" as its two comma-separated fields
FormatLine(pair) == [f0 |-> pair[1], f1 |-> pair[2]]

\* (float(line.split(",")[0].strip()), float(line.split(",")[1].strip()))
ParseLine(line) == <<line.f0, line.f1>>

create_param_space(e) == [i \in 1..Len(pairs(e.input_space)) |-> FormatLine(pairs(e.input_space)[i])]

\* parameters read back from the parameter file
parameters(lines) == [i \in 1..Len(lines) |-> ParseLine(lines[i])]

(***************************************************************************)
(* Experiment.create_json_configs                                          *)
(***************************************************************************)
EntityRule == "$qentity.$y1.$y2 -> (ENTITY $qnn.$y1.$z1 $qentitymods)"
Arg0NnRule   == "$qnn.arg0.$y1 -> (inst nn.$y1)"
Arg0PronRule == "$qnn.arg0.$y1 -> (inst pron.$z1)"
Arg1NnRule   == "$qnn.arg1.$y1 -> (inst nn.$y1)"
Arg1PronRule == "$qnn.arg1.$y1 -> (inst pron.$z1)"

SetDists_bad(ds, child_dists, strength, discount) ==
  [i \in 1..Len(ds) |->
     IF InSeq(ds[i].name, child_dists)
     THEN [ds[i] EXCEPT !.strength = ds[i].strength + strength, !.discount = discount]
     ELSE ds[i]]

\* the loop over json_content["distributions"]
SetDists(ds, child_dists, strength, discount) ==
  [i \in 1..Len(ds) |->
     IF InSeq(ds[i].name, child_dists)
     THEN [ds[i] EXCEPT !.strength = strength, !.discount = discount]
     ELSE ds[i]]

SetRule_bad(rule, dist) == rule

\* the body of the loop over json_content["rules"] for one rule
SetRule(rule, dist) ==
  LET r1 == IF dist # "vb" /\ rule.rule = EntityRule
            THEN [rule EXCEPT !.zdists = <<zdists[dist]>>] ELSE rule
      r2 == IF r1.rule = Arg0NnRule
            THEN [r1 EXCEPT !.base_weight = <<Scale - num_pron[1]>>] ELSE r1
      r3 == IF r2.rule = Arg0PronRule
            THEN [r2 EXCEPT !.base_weight = <<num_pron[1]>>] ELSE r2
      r4 == IF r3.rule = Arg1NnRule
            THEN [r3 EXCEPT !.base_weight = <<Scale - num_pron[2]>>] ELSE r3
      r5 == IF r4.rule = Arg1PronRule
            THEN [r4 EXCEPT !.base_weight = <<num_pron[2]>>] ELSE r4
  IN  r5

SetRules(rs, dist) == [i \in 1..Len(rs) |-> SetRule(rs[i], dist)]

\* one iteration of the loop over parameters, on the in-memory document
DeriveStep(doc, e, strength, discount) ==
  [distributions |-> SetDists(doc.distributions, e.child_dists, strength, discount),
   rules         |-> SetRules(doc.rules, e.dist)]

\* new_file_name
new_file_name(e, strength, discount) == <<e.name, int(strength), int(Times100(discount))>>

RECURSIVE DeriveLoop_bad(_, _, _, _, _)
DeriveLoop_bad(doc, files, e, ps, i) ==
  IF i > Len(ps) THEN [doc |-> doc, files |-> files]
  ELSE LET d2 == DeriveStep(doc, e, ps[i][1], ps[i][2])
       IN  DeriveLoop_bad(doc, Put(files, new_file_name(e, ps[i][1], ps[i][2]), d2), e, ps, i + 1)

RECURSIVE DeriveLoop(_, _, _, _, _)
\* the loop over parameters from position i: the document and the files after it
DeriveLoop(doc, files, e, ps, i) ==
  IF i > Len(ps) THEN [doc |-> doc, files |-> files]
  ELSE LET d2 == DeriveStep(doc, e, ps[i][1], ps[i][2])
       IN  DeriveLoop(d2, Put(files, new_file_name(e, ps[i][1], ps[i][2]), d2), e, ps, i + 1)

create_json_configs(e, lines, files) ==
  DeriveLoop(base_files[e.base_file], files, e, parameters(lines), 1)

(***************************************************************************)
(* Experiment.setup                                                        *)
(***************************************************************************)
Setup ==
  /\ exp # NoExp
  /\ LET lines == create_param_space(exp)
         out   == create_json_configs(exp, lines, json_files)
     IN  /\ param_files' = Put(param_files, exp.name, lines)
         /\ json_files' = out.files
         /\ json_content' = out.doc
  /\ sh_scripts' = sh_scripts \cup {exp.name}
  /\ err' = [type |-> "setup"]
  /\ UNCHANGED <<base_files, dirs, output_files, modified_files, mse_files,
                 treebank, exp, run_result, lst, prop>>

(***************************************************************************)
(* The batch script of create_sh_script, run by the external generator:    *)
(* one output file per derived config, named by the digits of its name     *)
(***************************************************************************)
Generate(key, lines) ==
  /\ key \in DOMAIN json_files
  /\ key[1] \in sh_scripts
  /\ output_files' = Put(output_files, key, lines)
  /\ err' = [type |-> "generate"]
  /\ UNCHANGED <<base_files, param_files, json_files, sh_scripts, dirs,
                 modified_files, mse_files, treebank, exp, json_content,
                 run_result, lst, prop>>

(***************************************************************************)
(* Exact fractions                                                         *)
(***************************************************************************)
RECURSIVE GCD(_, _)
GCD(a, b) == IF b = 0 THEN a ELSE GCD(b, a % b)

Abs(a) == IF a < 0 THEN -a ELSE a

Norm(f) == LET g == GCD(Abs(f[1]), f[2]) IN <<f[1] \div g, f[2] \div g>>

FAdd(f, g) == Norm(<<f[1] * g[2] + g[1] * f[2], f[2] * g[2]>>)
FSub(f, g) == Norm(<<f[1] * g[2] - g[1] * f[2], f[2] * g[2]>>)
FMul(f, g) == Norm(<<f[1] * g[1], f[2] * g[2]>>)
FLess(f, g) == f[1] * g[2] < g[1] * f[2]

(***************************************************************************)
(* get_prop (inside Experiment.get_singleton_prop)                         *)
(***************************************************************************)
RECURSIVE PropLoop_bad(_, _, _, _, _)
PropLoop_bad(l, idx, seen, singleton_count, singletons) ==
  IF idx > Len(l) THEN [i \in 1..Len(l) |-> Norm(<<singletons[i], i>>)]
  ELSE PropLoop_bad(l, idx + 1, seen, singleton_count + 1,
                    Append(singletons, singleton_count + 1))

RECURSIVE PropLoop_late(_, _, _, _, _)
PropLoop_late(l, idx, seen, singleton_count, singletons) ==
  IF idx > Len(l) THEN [i \in 1..Len(l) |-> Norm(<<singletons[i], i>>)]
  ELSE IF l[idx] \notin seen
       THEN PropLoop_late(l, idx + 1, seen \cup {l[idx]}, singleton_count + 1,
                          Append(singletons, singleton_count))
       ELSE PropLoop_late(l, idx + 1, seen, singleton_count,
                          Append(singletons, singleton_count))

RECURSIVE PropLoop(_, _, _, _, _)
\* the loop over enumerate(lst): singletons[i] / total[i] for every index
PropLoop(l, idx, seen, singleton_count, singletons) ==
  IF idx > Len(l) THEN [i \in 1..Len(l) |-> Norm(<<singletons[i], i>>)]
  ELSE IF l[idx] \notin seen
       THEN PropLoop(l, idx + 1, seen \cup {l[idx]}, singleton_count + 1,
                     Append(singletons, singleton_count + 1))
       ELSE PropLoop(l, idx + 1, seen, singleton_count,
                     Append(singletons, singleton_count))

\* get_prop(lst): the exception it raises (or None) and the curve it returns
get_prop(l) ==
  IF Len(l) = 0 THEN [raised |-> "IndexError", curve |-> <<>>]
  ELSE LET l2 == IF Len(l[1]) = 1 THEN [i \in 1..Len(l) |-> <<l[i], l[i]>>] ELSE l
       IN  IF \E i \in 1..Len(l2) : Len(l2[i]) # 2
           THEN [raised |-> "ValueError", curve |-> <<>>]
           ELSE [raised |-> None, curve |-> PropLoop(l2, 1, {}, 0, <<>>)]

GetProp ==
  /\ prop.raised = "not called"
  /\ prop' = get_prop(lst)
  /\ UNCHANGED <<base_files, param_files, json_files, sh_scripts, dirs, output_files,
                 modified_files, mse_files, treebank, exp, json_content, err,
                 run_result, lst>>

(***************************************************************************)
(* Experiment.get_peranto_data                                             *)
(***************************************************************************)
\* a dict as the sequence of its (key, value) items, in insertion order
DictHas(dict, k) == \E i \in 1..Len(dict) : dict[i][1] = k
DictPut(dict, k, v) ==
  IF DictHas(dict, k)
  THEN [i \in 1..Len(dict) |-> IF dict[i][1] = k THEN <<k, v>> ELSE dict[i]]
  ELSE Append(dict, <<k, v>>)

\* store.get(dist) of the triple stores: the projection of every triple
project(triples, dist) ==
  IF dist = "nn"
  THEN Flatten([i \in 1..Len(triples) |-> << <<triples[i][1]>>, <<triples[i][3]>> >>])
  ELSE [i \in 1..Len(triples) |->
          CASE dist = "vb"          -> <<triples[i][2]>>
            [] dist = "nn.arg0"     -> <<triples[i][1]>>
            [] dist = "nn.arg1"     -> <<triples[i][3]>>
            [] dist = "nn.arg0.$y0" -> <<triples[i][1], triples[i][2]>>
            [] OTHER                -> <<triples[i][2], triples[i][3]>>]

\* the name of the generated output file of a pair
file_path(e, strength, discount) == <<e.name, int(strength), int(Times100(discount))>>

\* subject, verb, obj = line[0], line[1], line[2] succeeds on every line
Parsable(lines) == \A i \in 1..Len(lines) : Len(lines[i]) >= 3

triples_of(lines) == [i \in 1..Len(lines) |-> SubSeq(lines[i], 1, 3)]

RECURSIVE PerantoLoop_bad(_, _, _, _, _)
PerantoLoop_bad(data, mods, e, ps, i) ==
  IF i > Len(ps) THEN [none |-> FALSE, data |-> data, mods |-> mods]
  ELSE LET fp == file_path(e, ps[i][1], ps[i][2]) IN
       IF fp \notin DOMAIN output_files \/ ~Parsable(output_files[fp])
       THEN PerantoLoop_bad(data, mods, e, ps, i + 1)
       ELSE LET stuff_to_write == project(triples_of(output_files[fp]), e.dist)
            IN  PerantoLoop_bad(DictPut(data, ps[i], stuff_to_write),
                                Put(mods, fp, stuff_to_write), e, ps, i + 1)

RECURSIVE PerantoLoop(_, _, _, _, _)
\* the loop over parameters from position i: peranto_data (or None) and the
\* filtered files written
PerantoLoop(data, mods, e, ps, i) ==
  IF i > Len(ps) THEN [none |-> FALSE, data |-> data, mods |-> mods]
  ELSE LET fp == file_path(e, ps[i][1], ps[i][2]) IN
       IF fp \notin DOMAIN output_files
       THEN [none |-> TRUE, data |-> <<>>, mods |-> mods]
       ELSE IF ~Parsable(output_files[fp])
       THEN [none |-> TRUE, data |-> <<>>, mods |-> mods]
       ELSE LET stuff_to_write == project(triples_of(output_files[fp]), e.dist)
            IN  PerantoLoop(DictPut(data, ps[i], stuff_to_write),
                            Put(mods, fp, stuff_to_write), e, ps, i + 1)

get_peranto_data(e) ==
  PerantoLoop(<<>>, modified_files, e, parameters(param_files[e.name]), 1)

(***************************************************************************)
(* Experiment.get_singleton_prop                                           *)
(***************************************************************************)
RECURSIVE FirstRaised(_, _)
\* the first exception of a sequence of get_prop results, or None
FirstRaised(rs, i) ==
  IF i > Len(rs) THEN None
  ELSE IF rs[i].raised # None THEN rs[i].raised
  ELSE FirstRaised(rs, i + 1)

get_singleton_prop(e, data) ==
  LET props == [i \in 1..Len(data) |-> get_prop(data[i][2])]
      tb    == get_prop(project(treebank, e.dist))
      r     == FirstRaised(Append(props, tb), 1)
  IN  [raised        |-> r,
       peranto_prop  |-> IF r = None
                         THEN [i \in 1..Len(data) |-> <<data[i][1], props[i].curve>>]
                         ELSE <<>>,
       treebank_prop |-> IF r = None THEN tb.curve ELSE <<>>]

(***************************************************************************)
(* Experiment.get_top_k                                                    *)
(***************************************************************************)
\* numpy can combine arrays of these lengths elementwise
Broadcastable(n, m) == n = m \/ n = 1 \/ m = 1

Max(a, b) == IF a >= b THEN a ELSE b

RECURSIVE SumSq(_, _, _, _)
\* the sum of (x - y) ** 2 over positions i..n, a length-1 array being repeated
SumSq(x, y, i, n) ==
  IF i > n THEN <<0, 1>>
  ELSE LET xi == IF Len(x) = 1 THEN x[1] ELSE x[i]
           yi == IF Len(y) = 1 THEN y[1] ELSE y[i]
           d  == FSub(xi, yi)
       IN  FAdd(FMul(d, d), SumSq(x, y, i + 1, n))

\* np.mean((x - y) ** 2)
mse(x, y) ==
  LET n == Max(Len(x), Len(y)) IN FMul(SumSq(x, y, 1, n), <<1, n>>)

RECURSIVE Insert_bad(_, _)
Insert_bad(sorted, x) ==
  IF sorted = <<>> THEN <<x>>
  ELSE IF ~FLess(Head(sorted)[2], x[2]) THEN <<x>> \o sorted
  ELSE <<Head(sorted)>> \o Insert_bad(Tail(sorted), x)

RECURSIVE Insert(_, _)
\* x put into the sorted list after every entry that is not greater
Insert(sorted, x) ==
  IF sorted = <<>> THEN <<x>>
  ELSE IF FLess(x[2], Head(sorted)[2]) THEN <<x>> \o sorted
  ELSE <<Head(sorted)>> \o Insert(Tail(sorted), x)

RECURSIVE Sorted(_, _, _)
\* sorted(items, key = mse): a stable sort
Sorted(items, i, acc) ==
  IF i > Len(items) THEN acc ELSE Sorted(items, i + 1, Insert(acc, items[i]))

get_top_k(singleton_prop, treebank_prop, k) ==
  IF \E i \in 1..Len(singleton_prop) :
        ~Broadcastable(Len(treebank_prop), Len(singleton_prop[i][2]))
  THEN [raised |-> "ValueError", mse_results |-> <<>>, best_params |-> <<>>]
  ELSE LET table == [i \in 1..Len(singleton_prop) |->
                       <<singleton_prop[i][1], mse(treebank_prop, singleton_prop[i][2])>>]
           mse_results == Sorted(table, 1, <<>>)
       IN  [raised      |-> None,
            mse_results |-> mse_results,
            best_params |-> SubSeq(mse_results, 1, Min(k, Len(mse_results)))]

(***************************************************************************)
(* Experiment.run                                                          *)
(***************************************************************************)
NoRun == [status |-> "not run", k |-> 0, singleton_prop |-> <<>>,
          treebank_prop |-> <<>>, best_params |-> <<>>]

Run(k) ==
  /\ exp # NoExp
  /\ UNCHANGED <<base_files, param_files, json_files, sh_scripts, dirs,
                 output_files, treebank, exp, json_content, lst, prop>>
  /\ err' = [type |-> "run"]
  /\ IF exp.name \notin DOMAIN param_files
     THEN /\ run_result' = [NoRun EXCEPT !.status = "FileNotFoundError", !.k = k]
          /\ UNCHANGED <<modified_files, mse_files>>
     ELSE LET pd == get_peranto_data(exp) IN
          /\ modified_files' = pd.mods
          /\ IF pd.none
             THEN /\ run_result' = [NoRun EXCEPT !.status = "AttributeError", !.k = k]
                  /\ UNCHANGED mse_files
             ELSE LET sp == get_singleton_prop(exp, pd.data) IN
                  IF sp.raised # None
                  THEN /\ run_result' = [NoRun EXCEPT !.status = sp.raised, !.k = k]
                       /\ UNCHANGED mse_files
                  ELSE LET top == get_top_k(sp.peranto_prop, sp.treebank_prop, k) IN
                       IF top.raised # None
                       THEN /\ run_result' = [NoRun EXCEPT !.status = top.raised, !.k = k,
                                                !.singleton_prop = sp.peranto_prop,
                                                !.treebank_prop = sp.treebank_prop]
                            /\ UNCHANGED mse_files
                       ELSE /\ run_result' = [status         |-> "done",
                                              k              |-> k,
                                              singleton_prop |-> sp.peranto_prop,
                                              treebank_prop  |-> sp.treebank_prop,
                                              best_params    |-> top.best_params]
                            /\ mse_files' = Put(mse_files, exp.name, top.mse_results)

(***************************************************************************)
(* Inputs                                                                  *)
(***************************************************************************)
List(items) == [type |-> "list", items |-> items]
InputSpace(S, D) == << <<"Strength", List(S)>>, <<"Discount", List(D)>> >>

GridA == InputSpace(<<0, 50000>>, <<0, 500>>)       \* strengths 0, 50; discounts 0, 0.5
GridB == InputSpace(<<500, 700>>, <<0>>)            \* strengths 0.5, 0.7; discount 0
GridC == InputSpace(<<50000>>, <<251, 255>>)        \* strength 50; discounts 0.251, 0.255
GridE == InputSpace(<<>>, <<100>>)                  \* no strength at all
GridR == InputSpace(<<0, 50000, 100000>>, <<0>>)    \* strengths 0, 50, 100; discount 0
BadKeys   == << <<"Discount", List(<<0>>)>>, <<"Strength", List(<<0>>)>> >>
BadValues == << <<"Strength", [type |-> "ndarray", items |-> <<0>>]>>,
                <<"Discount", List(<<0>>)>> >>

DistRecord(nm, s, d) == [name |-> nm, strength |-> s, discount |-> d]
RuleRecord(r, w, z) == [rule |-> r, base_weight |-> w, zdists |-> z]

BaseDists == <<DistRecord("nn", 1000, 400), DistRecord("vb", 2000, 300),
               DistRecord("nn.arg0", 3000, 200)>>

\* a base document with every rule the templater rewrites
BaseFull ==
  [distributions |-> BaseDists,
   rules |-> <<RuleRecord(EntityRule, <<>>, << <<"nn.$y1">> >>),
               RuleRecord(Arg0NnRule, <<500>>, <<>>),
               RuleRecord(Arg0PronRule, <<500>>, <<>>),
               RuleRecord(Arg1NnRule, <<500>>, <<>>),
               RuleRecord(Arg1PronRule, <<500>>, <<>>),
               RuleRecord("$qvb -> (inst vb)", <<>>, <<>>)>>]

\* a base document without the entity rule and without one pronoun rule
BaseLacking ==
  [distributions |-> BaseDists,
   rules |-> <<RuleRecord(Arg0NnRule, <<500>>, <<>>),
               RuleRecord(Arg0PronRule, <<500>>, <<>>),
               RuleRecord(Arg1NnRule, <<500>>, <<>>),
               RuleRecord("$qvb -> (inst vb)", <<>>, <<>>)>>]

T1 == <<"he", "eat", "it">>
T2 == <<"she", "eat", "it">>
T3 == <<"he", "see", "it">>

Outputs == { <<T1, T3>>,            \* two lines, two verbs
             <<T1, T2>>,            \* two lines, one verb
             <<T1>>,                \* one line
             <<T1, <<"he", "eat">> >> }  \* a line of two fields

Treebanks == { <<T1, T2>>, <<T1, T2, T3>>, <<T1>> }

Tokens == {"a", "b"}

\* lists of at most MaxObs observations, all of arity 1 or all of arity 2
ObsLists ==
  UNION {[1..n -> {<<t>> : t \in Tokens}] : n \in 0..MaxObs}
  \cup UNION {[1..n -> {<<t, u>> : t \in Tokens, u \in Tokens}] : n \in 1..MaxObs}

NotCalled == [raised |-> "not called", curve |-> <<>>]

InitWith(bases, tbs, lsts) ==
  /\ base_files \in {[f \in {"basefile.json"} |-> b] : b \in bases}
  /\ param_files = <<>>
  /\ json_files = <<>>
  /\ sh_scripts = {}
  /\ dirs = {}
  /\ output_files = <<>>
  /\ modified_files = <<>>
  /\ mse_files = <<>>
  /\ treebank \in tbs
  /\ exp = NoExp
  /\ json_content = NoDoc
  /\ err = NoErr
  /\ run_result = NoRun
  /\ lst \in lsts
  /\ prop = NotCalled

(***************************************************************************)
(* Spec: constructions and setups of every distribution in one data folder *)
(***************************************************************************)
Init == InitWith({BaseFull, BaseLacking}, {<<T1>>}, {<<>>})

ConstructAny ==
  \E d \in {distributions[i] : i \in 1..Len(distributions)} \cup {"adj"},
     is \in {GridA, BadKeys, BadValues},
     bf \in {"basefile.json", "nofile.json"},
     cd \in {NotSupplied, Supplied(<<"nn", "nn.arg0">>)} :
       Construct(Config(d, is, bf, cd))

Next == ConstructAny \/ Setup

Spec == Init /\ [][Next]_vars

(***************************************************************************)
(* SpecDerive: setups of the level-1 distributions over several grids      *)
(***************************************************************************)
ConstructLvl1 ==
  \E d \in {"nn", "vb"}, is \in {GridA, GridB, GridC, GridE} :
       Construct(Config(d, is, "basefile.json", NotSupplied))

NextDerive == ConstructLvl1 \/ Setup

SpecDerive == Init /\ [][NextDerive]_vars

(***************************************************************************)
(* SpecRun: setup, external generation and run of the verb distribution    *)
(***************************************************************************)
InitRun == InitWith({BaseFull}, Treebanks, {<<>>})

ConstructVb ==
  \E is \in {GridR} : Construct(Config("vb", is, "basefile.json", NotSupplied))

\* the generator writes each output file once
GenerateAny ==
  \E key \in DOMAIN json_files, lines \in Outputs :
       /\ key \notin DOMAIN output_files
       /\ Generate(key, lines)

RunAny == \E k \in 0..MaxK : Run(k)

NextRun == ConstructVb \/ Setup \/ GenerateAny \/ RunAny

SpecRun == InitRun /\ [][NextRun]_vars

(***************************************************************************)
(* SpecProp: get_prop applied to every bounded observation list            *)
(***************************************************************************)
InitProp == InitWith({BaseFull}, {<<T1>>}, ObsLists)

NextProp == GetProp

SpecProp == InitProp /\ [][NextProp]_vars

(***************************************************************************)
(* SpecOrder: setup, generation and run of the verb distribution over      *)
(* grids with several discounts                                            *)
(***************************************************************************)
OrderGrids == {GridA, GridC, GridE}

InitOrder == InitWith({BaseFull}, {<<T1, T2>>}, {<<>>})

ConstructOrder ==
  \E is \in OrderGrids : Construct(Config("vb", is, "basefile.json", NotSupplied))

GenerateOrder ==
  \E key \in DOMAIN json_files, lines \in {<<T1, T3>>} :
       /\ key \notin DOMAIN output_files
       /\ Generate(key, lines)

RunOrder == Run(MaxK)

NextOrder == ConstructOrder \/ Setup \/ GenerateOrder \/ RunOrder

SpecOrder == InitOrder /\ [][NextOrder]_vars

(***************************************************************************)
(* Claims                                                                  *)
(***************************************************************************)
Tuned(nms) == nms \subseteq DOMAIN param_files

\* C1: a level-2 parameter list exists only if both level-1 lists exist, a
\* level-3 list only if all level-1 and level-2 lists exist, and the gate
\* never blocks the construction of a level-1 Experiment.
C1_StageOrder ==
  /\ \A nm \in {"nn.arg0", "nn.arg1"} :
        nm \in DOMAIN param_files => Tuned({"vb", "nn"})
  /\ \A nm \in {"nn.arg0.y0", "nn.arg1.y0"} :
        nm \in DOMAIN param_files => Tuned({"vb", "nn", "nn.arg0", "nn.arg1"})
  /\ err.type = "gate" => err.before \notin {"vb", "nn"}

C1_Witness ==
  /\ "nn.arg1.y0" \in DOMAIN param_files
  /\ exp # NoExp /\ exp.dist = "nn" /\ err = NoErr

\* the prerequisites of a name, in the order the gate examines them
PrereqOrder(nm) ==
  IF nm \in {"nn.arg0.y0", "nn.arg1.y0"} THEN <<"vb", "nn", "nn.arg0", "nn.arg1">>
  ELSE IF nm \in {"nn.arg0", "nn.arg1"} THEN <<"vb", "nn">>
  ELSE <<>>

\* C2 as stated: a blocked construction names every missing prerequisite.
C2_ListsAllMissing ==
  err.type = "gate" =>
    \A i \in 1..Len(PrereqOrder(err.before)) :
      PrereqOrder(err.before)[i] \notin DOMAIN param_files
        => InSeq(PrereqOrder(err.before)[i], err.tune)

\* C2 amended: a blocked construction names exactly one distribution, the
\* first missing prerequisite in the order vb, nn, nn.arg0, nn.arg1.
C2_NamesFirstMissing ==
  err.type = "gate" =>
    /\ Len(err.tune) = 1
    /\ \E i \in 1..Len(PrereqOrder(err.before)) :
         /\ err.tune[1] = PrereqOrder(err.before)[i]
         /\ err.tune[1] \notin DOMAIN param_files
         /\ \A j \in 1..(i - 1) : PrereqOrder(err.before)[j] \in DOMAIN param_files

C2_Witness ==
  /\ err.type = "gate"
  /\ err.before = "nn.arg0.y0"
  /\ "vb" \notin DOMAIN param_files
  /\ "nn" \notin DOMAIN param_files

\* the pairs of the session's grid, as setup and run read them back
GridOf(e) == parameters(create_param_space(e))

BaseOf(e) == base_files[e.base_file]

C5_DistinctNames ==
  exp # NoExp =>
    \A i, j \in 1..Len(GridOf(exp)) :
      GridOf(exp)[i] # GridOf(exp)[j] =>
        new_file_name(exp, GridOf(exp)[i][1], GridOf(exp)[i][2])
          # new_file_name(exp, GridOf(exp)[j][1], GridOf(exp)[j][2])

RulePatterns == {EntityRule, Arg0NnRule, Arg0PronRule, Arg1NnRule, Arg1PronRule}

HasRule(doc, r) == \E i \in 1..Len(doc.rules) : doc.rules[i].rule = r

Lacks(doc) == \E r \in RulePatterns : ~HasRule(doc, r)

\* C10 as stated: no derived config is written from a base document that
\* lacks one of the rule patterns.
C10_NoConfigFromLackingBase ==
  Lacks(base_files["basefile.json"]) => json_files = <<>>

\* C10 amended: a rule pattern missing from the base document is skipped
\* silently: setup completes, a derived config is written for every pair, it
\* has exactly the rules of the base (none added for the missing pattern), and
\* the pronoun rules that are present carry the rewritten weights.
C10_MissingRuleSkipped ==
  (err.type = "setup" /\ Lacks(BaseOf(exp))) =>
    \A i \in 1..Len(GridOf(exp)) :
      LET fn == new_file_name(exp, GridOf(exp)[i][1], GridOf(exp)[i][2]) IN
      /\ fn \in DOMAIN json_files
      /\ Len(json_files[fn].rules) = Len(BaseOf(exp).rules)
      /\ \A r \in 1..Len(json_files[fn].rules) :
           /\ json_files[fn].rules[r].rule = BaseOf(exp).rules[r].rule
           /\ json_files[fn].rules[r].rule = Arg0NnRule
                => json_files[fn].rules[r].base_weight = <<302>>
           /\ json_files[fn].rules[r].rule = Arg0PronRule
                => json_files[fn].rules[r].base_weight = <<698>>
           /\ json_files[fn].rules[r].rule = Arg1NnRule
                => json_files[fn].rules[r].base_weight = <<748>>

C10_Witness ==
  /\ err.type = "setup"
  /\ Lacks(BaseOf(exp))
  /\ Len(GridOf(exp)) = 4
  /\ \A i \in 1..4 :
       new_file_name(exp, GridOf(exp)[i][1], GridOf(exp)[i][2]) \in DOMAIN json_files

\* f <= g for fractions
FLeq(f, g) == f[1] * g[2] <= g[1] * f[2]

\* C6 as stated: the curve of a non-empty list is non-decreasing.
C6_NonDecreasing ==
  prop.raised = None =>
    \A i \in 1..(Len(prop.curve) - 1) : FLeq(prop.curve[i], prop.curve[i + 1])

\* C6 amended: the curve does not decrease at an index whose observation
\* occurs for the first time, and strictly decreases at every index whose
\* observation repeats an earlier one.
C6_StepByOccurrence ==
  prop.raised = None =>
    /\ Len(prop.curve) = Len(lst)
    /\ \A i \in 1..(Len(lst) - 1) :
         IF \E j \in 1..i : lst[j] = lst[i + 1]
         THEN FLess(prop.curve[i + 1], prop.curve[i])
         ELSE FLeq(prop.curve[i], prop.curve[i + 1])

C6_Witness ==
  /\ prop.raised = None
  /\ Len(lst) = 3
  /\ lst[1] = lst[2] /\ lst[3] # lst[1]
  /\ FLess(prop.curve[2], prop.curve[1])
  /\ FLess(prop.curve[2], prop.curve[3])

\* C7: get_prop of the empty list returns the empty curve without failing.
C7_EmptyCurve ==
  (lst = <<>> /\ prop.raised # "not called") =>
    (prop.raised = None /\ prop.curve = <<>>)

\* the generated output file of a pair is present and every line parses
Usable(e, pair) ==
  /\ file_path(e, pair[1], pair[2]) \in DOMAIN output_files
  /\ Parsable(output_files[file_path(e, pair[1], pair[2])])

Ran == err.type = "run" /\ exp.name \in DOMAIN param_files

GridPos(pair) ==
  LET ps == parameters(param_files[exp.name])
  IN  CHOOSE i \in 1..Len(ps) : ps[i] = pair /\ \A j \in 1..(i - 1) : ps[j] # pair

\* C8: whenever get_top_k returns, it returns min(k, number of curves)
\* results, each a pair of the grid with its distance to the reference curve,
\* in non-decreasing order of distance, results of equal distance in grid
\* order, and no omitted pair would sort before a returned one.
C8_TopK ==
  (Ran /\ run_result.status = "done") =>
    LET bp == run_result.best_params
        sp == run_result.singleton_prop
        Dist(i) == mse(run_result.treebank_prop, sp[i][2])
        Before(p, dp, q, dq) == FLess(dp, dq) \/ (dp = dq /\ GridPos(p) < GridPos(q))
    IN  /\ Len(bp) = Min(run_result.k, Len(sp))
        /\ \A j \in 1..Len(bp) : \E i \in 1..Len(sp) :
             sp[i][1] = bp[j][1] /\ bp[j][2] = Dist(i)
        /\ \A j \in 1..(Len(bp) - 1) :
             Before(bp[j][1], bp[j][2], bp[j + 1][1], bp[j + 1][2])
        /\ \A i \in 1..Len(sp) :
             (\A j \in 1..Len(bp) : bp[j][1] # sp[i][1]) =>
               \A j \in 1..Len(bp) : Before(bp[j][1], bp[j][2], sp[i][1], Dist(i))

C8_Witness ==
  LET ps == parameters(param_files[exp.name]) IN
  /\ Ran /\ run_result.status = "done"
  /\ run_result.k = 2
  /\ Len(run_result.singleton_prop) = 3
  /\ \A i \in 1..3 :
       mse(run_result.treebank_prop, run_result.singleton_prop[i][2]) = <<0, 1>>
  /\ Len(run_result.treebank_prop) = 2
  /\ run_result.best_params = << <<ps[1], <<0, 1>> >>, <<ps[2], <<0, 1>> >> >>

\* C9: a candidate curve whose length differs from the reference curve's
\* length makes the distance computation raise.
C9_MismatchRaises ==
  (/\ Ran
   /\ run_result.status \in {"done", "ValueError"}
   /\ \E i \in 1..Len(run_result.singleton_prop) :
        Len(run_result.singleton_prop[i][2]) # Len(run_result.treebank_prop))
    => run_result.status = "ValueError"

\* the document written at position i of the grid: the in-memory document
\* after the first i iterations of the loop over parameters
WrittenAt(e, i) == DeriveLoop(BaseOf(e), <<>>, e, SubSeq(GridOf(e), 1, i), 1).doc

\* the document derived for one pair alone from a fresh copy of the base
Fresh(e, pair) == DeriveLoop(BaseOf(e), <<>>, e, <<pair>>, 1).doc

\* no later pair of the grid is written under the file name of position i
LastWriter(e, i) ==
  \A j \in (i + 1)..Len(GridOf(e)) :
    new_file_name(e, GridOf(e)[j][1], GridOf(e)[j][2])
      # new_file_name(e, GridOf(e)[i][1], GridOf(e)[i][2])

\* C11: for every position of the grid, the document written for the pair at
\* that position equals the document derived from a fresh copy of the base
\* for that pair alone, whatever pairs were processed before it; the file left
\* on disk under a name is the fresh derivation of the last pair written to it.
C11_DerivedIsFunctionOfPair ==
  err.type = "setup" =>
    \A i \in 1..Len(GridOf(exp)) :
      /\ WrittenAt(exp, i) = Fresh(exp, GridOf(exp)[i])
      /\ LastWriter(exp, i) =>
           json_files[new_file_name(exp, GridOf(exp)[i][1], GridOf(exp)[i][2])]
             = Fresh(exp, GridOf(exp)[i])

C11_Witness ==
  /\ err.type = "setup"
  /\ Len(GridOf(exp)) = 4
  /\ json_files[new_file_name(exp, GridOf(exp)[2][1], GridOf(exp)[2][2])]
       = Fresh(exp, GridOf(exp)[2])
  /\ Fresh(exp, GridOf(exp)[2]) # Fresh(exp, GridOf(exp)[1])
  /\ Fresh(exp, GridOf(exp)[2]) # BaseOf(exp)

\* the strength-major product of a strength list and a discount list
StrengthMajor(S, D) ==
  [n \in 1..(Len(S) * Len(D)) |->
     <<S[((n - 1) \div Len(D)) + 1], D[((n - 1) % Len(D)) + 1]>>]

StrengthMajorOf(is) == StrengthMajor(Lookup(is, "Strength"), Lookup(is, "Discount"))

\* C12: the generated grid has |S|*|D| pairs in strength-major order; every
\* persisted parameter list holds the pairs of its grid in that order, one
\* per line; setup derives a config for each and ends on the last pair of
\* that order; run collects the curves of the pairs in the order of the
\* persisted list.
C12_StrengthMajorOrder ==
  /\ exp # NoExp =>
       /\ Len(pairs(exp.input_space))
            = Len(Lookup(exp.input_space, "Strength")) * Len(Lookup(exp.input_space, "Discount"))
       /\ pairs(exp.input_space) = StrengthMajorOf(exp.input_space)
  /\ \A nm \in DOMAIN param_files :
       \E is \in OrderGrids : parameters(param_files[nm]) = StrengthMajorOf(is)
  /\ err.type = "setup" =>
       LET sm == StrengthMajorOf(exp.input_space) IN
       /\ parameters(param_files[exp.name]) = sm
       /\ \A n \in 1..Len(sm) : new_file_name(exp, sm[n][1], sm[n][2]) \in DOMAIN json_files
       /\ sm # <<>> => json_content = Fresh(exp, sm[Len(sm)])
  /\ (Ran /\ run_result.status = "done") =>
       [i \in 1..Len(run_result.singleton_prop) |-> run_result.singleton_prop[i][1]]
         = parameters(param_files[exp.name])

C12_Witness ==
  /\ Ran /\ run_result.status = "done"
  /\ [i \in 1..Len(run_result.singleton_prop) |-> run_result.singleton_prop[i][1]]
       = << <<0, 0>>, <<0, 500>>, <<50000, 0>>, <<50000, 500>> >>
  /\ [i \in 1..4 |-> ParseLine(param_files["vb"][i])]
       = << <<0, 0>>, <<0, 500>>, <<50000, 0>>, <<50000, 500>> >>

\* C13: the session's child-distribution set is the one the caller supplied
\* to Config (the tuned distribution alone when none was supplied), and in
\* each derived document exactly the records named in it carry the pair while
\* every other record keeps the strength and discount of the base.
C13_ChildDistsRewritten ==
  /\ err.type = "AttributeError" =>
       (exp # NoExp /\ exp.dist = err.distribution /\ exp.child_dists = err.child_dists)
  /\ err.type = "setup" =>
       \A i \in 1..Len(GridOf(exp)) :
         LastWriter(exp, i) =>
           LET doc == json_files[new_file_name(exp, GridOf(exp)[i][1], GridOf(exp)[i][2])]
               base == BaseOf(exp)
           IN  /\ Len(doc.distributions) = Len(base.distributions)
               /\ \A r \in 1..Len(doc.distributions) :
                    /\ doc.distributions[r].name = base.distributions[r].name
                    /\ IF InSeq(doc.distributions[r].name, exp.child_dists)
                       THEN /\ doc.distributions[r].strength = GridOf(exp)[i][1]
                            /\ doc.distributions[r].discount = GridOf(exp)[i][2]
                       ELSE /\ doc.distributions[r].strength = base.distributions[r].strength
                            /\ doc.distributions[r].discount = base.distributions[r].discount

\* the number of distinct observations among the first i of a list
Distinct(l, i) == Cardinality({l[j] : j \in 1..i})

\* C14: for a non-empty list of n observations, all of arity 1 or all of
\* arity 2, get_prop returns a curve of length n whose value at index i is
\* (number of distinct observations among the first i) / i; every value lies
\* in (0, 1] and the first value is 1.
C14_CurveValues ==
  (prop.raised # "not called" /\ lst # <<>>) =>
    /\ prop.raised = None
    /\ Len(prop.curve) = Len(lst)
    /\ \A i \in 1..Len(lst) :
         /\ prop.curve[i][1] * i = Distinct(lst, i) * prop.curve[i][2]
         /\ prop.curve[i][2] > 0
         /\ prop.curve[i][1] > 0
         /\ prop.curve[i][1] <= prop.curve[i][2]
    /\ prop.curve[1] = <<1, 1>>

C14_Witness ==
  /\ prop.raised = None
  /\ Len(lst) = 3
  /\ Len(lst[1]) = 2
  /\ lst[1] = lst[3] /\ lst[1] # lst[2] /\ lst[1][1] = lst[2][1]
  /\ prop.curve = << <<1, 1>>, <<1, 1>>, <<2, 3>> >>
====
